---- MODULE Spec2Model ----
(***************************************************************************)
(* Verification model of TanTanDev/todo: the start-up load of the task     *)
(* list (src/src/main.rs 153-183), the terminal set-up and the main loop   *)
(* with its key handlers (main.rs 186-336), save_today (main.rs 115-124)   *)
(* and the event producer thread (src/src/events.rs 41-72).                *)
(*                                                                         *)
(* A text (String) is a sequence of one-character strings; a Task is a     *)
(* record [status, info].                                                  *)
(***************************************************************************)
EXTENDS Integers, Sequences, FiniteSets, TLC

\* ------------------------------------------------------------------ bounds
MaxTemplate == 2   \* longest weekday template drawn for the load
MaxSaved == 2      \* longest saved task list drawn for the load
MaxTasks == 2      \* longest task list of a session
MaxInput == 1      \* longest text typed in Insert mode
MaxChan == 2       \* most messages in flight on the channel

\* ------------------------------------------------------- data of the load
Status == {"Todo", "Done"}

\* texts of template and saved tasks drawn for the load
LoadTexts == {<<"a">>, <<"b">>, <<"c">>}

\* chrono::Weekday values drawn for today and for the saved date
Weekdays == {"Mon", "Tue"}

\* date: None of Today.date
NoDate == "None"

RECURSIVE SeqsUpTo(_, _)
\* all sequences over S of length at most n
SeqsUpTo(S, n) ==
    IF n = 0 THEN {<<>>}
    ELSE LET shorter == SeqsUpTo(S, n - 1)
         IN  shorter \cup {Append(s, x) : s \in {t \in shorter : Len(t) = n - 1}, x \in S}

Task(status, info) == [status |-> status, info |-> info]

\* weekday_tasks.tasks.get(&weekday): None, or Some(WeekdayTask) with its texts
DayTasksNone == [present |-> FALSE, tasks |-> <<>>]
DayTasksSome(texts) == [present |-> TRUE, tasks |-> texts]
DayTasksInputs ==
    {DayTasksNone} \cup {DayTasksSome(t) : t \in SeqsUpTo(LoadTexts, MaxTemplate)}

\* today.json as the start-up sees it: read_to_string fails, from_str fails,
\* or a Today value with its tasks and its optional date (only the weekday of
\* the date is read)
FileUnreadable == [kind |-> "unreadable", tasks |-> <<>>, date |-> NoDate]
FileMalformed == [kind |-> "malformed", tasks |-> <<>>, date |-> NoDate]
FileToday(saved, date) == [kind |-> "today", tasks |-> saved, date |-> date]
\* the file left from before the session, which the session never reads
FileOld == [kind |-> "old", tasks |-> <<>>, date |-> NoDate]
SavedInputs == SeqsUpTo([status : Status, info : LoadTexts], MaxSaved)
TodayFileInputs ==
    {FileUnreadable, FileMalformed}
        \cup {FileToday(s, d) : s \in SavedInputs, d \in Weekdays \cup {NoDate}}

\* ------------------------------------------------------------------ state
VARIABLES
    pc,            \* position of the main thread
    weekday,       \* local.date().weekday()
    day_tasks,     \* weekday_tasks.tasks.get(&weekday)
    today_file,    \* today.json
    tasks,         \* Vec<Task>
    selected,      \* i32
    app_mode,      \* AppMode
    input_string,  \* String
    raw_mode,      \* the terminal is in raw mode
    chan,          \* messages in flight on the mpsc channel
    producer,      \* position of the event producer thread
    elapsed,       \* last_tick.elapsed() of the producer, in milliseconds
    keyboard,      \* the characters the user types as task text in this run
    compose        \* history: the list and the selection when Insert mode
                   \* was entered, the text typed since, and the key that
                   \* ended it, kept until the next draw

vars == <<pc, weekday, day_tasks, today_file, tasks, selected, app_mode,
          input_string, raw_mode, chan, producer, elapsed, keyboard, compose>>

\* compose when Insert mode has not been entered since the last draw
NoCompose ==
    [active |-> FALSE, tasks |-> <<>>, selected |-> 0, typed |-> <<>>,
     ended |-> "none"]

\* ---------------------------------------------------- the load (153-183)
\* variant of NewTasks that starts the template tasks as Done
NewTasksDone(day) ==
    IF day.present
    THEN [i \in 1..Len(day.tasks) |-> Task("Done", day.tasks[i])]
    ELSE <<>>

\* main.rs 155-163: one Todo task per template text, in template order
NewTasks(day) ==
    IF day.present
    THEN [i \in 1..Len(day.tasks) |-> Task("Todo", day.tasks[i])]
    ELSE <<>>

\* first-match variant of MergeSavedTask: only the first task with the saved
\* text takes the saved status
MergeSavedTaskFirstMatch(ts, saved_task) ==
    LET hits == {i \in 1..Len(ts) : ts[i].info = saved_task.info}
        first == CHOOSE i \in hits : \A j \in hits : i <= j
    IN  IF hits = {} THEN Append(ts, saved_task)
        ELSE [ts EXCEPT ![first].status = saved_task.status]

\* variant of MergeSavedTask without the check of line 176: the saved task is
\* pushed also when a task with its text is in the list
MergeSavedTaskAlwaysPush(ts, saved_task) ==
    Append([i \in 1..Len(ts) |->
               IF ts[i].info = saved_task.info
               THEN [ts[i] EXCEPT !.status = saved_task.status]
               ELSE ts[i]],
           saved_task)

\* variant of MergeSavedTask without the assignment of line 173: a saved
\* task that matches leaves the status as it is
MergeSavedTaskKeepStatus(ts, saved_task) ==
    IF ~ \E i \in 1..Len(ts) : ts[i].info = saved_task.info
    THEN Append(ts, saved_task)
    ELSE ts

\* variant of MergeSavedTask without the push of line 177
MergeSavedTaskNoPush(ts, saved_task) ==
    [i \in 1..Len(ts) |->
        IF ts[i].info = saved_task.info
        THEN [ts[i] EXCEPT !.status = saved_task.status]
        ELSE ts[i]]

\* main.rs 170-179: one iteration of the loop over the saved tasks
MergeSavedTask(ts, saved_task) ==
    LET marked == [i \in 1..Len(ts) |->
                      IF ts[i].info = saved_task.info
                      THEN [ts[i] EXCEPT !.status = saved_task.status]
                      ELSE ts[i]]
    IN  IF ~ \E i \in 1..Len(marked) : marked[i].info = saved_task.info
        THEN Append(marked, saved_task)
        ELSE marked

RECURSIVE MergeSaved(_, _)
\* main.rs 170: for saved_task in today.tasks.into_iter()
MergeSaved(ts, saved) ==
    IF saved = <<>> THEN ts
    ELSE MergeSaved(MergeSavedTask(ts, Head(saved)), Tail(saved))

\* variant of SnapshotUsable without the weekday comparison of line 169
SnapshotUsableAnyDay(file, wd) ==
    /\ file.kind = "today"
    /\ file.date # NoDate

\* main.rs 166-169: the file was read, parsed, has a date, and the weekday of
\* the date is today's
SnapshotUsable(file, wd) ==
    /\ file.kind = "today"
    /\ file.date # NoDate
    /\ file.date = wd

\* main.rs 155-183
LoadedTasks(day, file, wd) ==
    IF SnapshotUsable(file, wd)
    THEN MergeSaved(NewTasks(day), file.tasks)
    ELSE NewTasks(day)

\* ------------------------------------------ specification of the load
\* the session state while the load runs: nothing of the terminal or of the
\* event producer exists before line 186
LoadInit ==
    /\ pc = "load"
    /\ weekday \in Weekdays
    /\ day_tasks \in DayTasksInputs
    /\ today_file \in TodayFileInputs
    /\ tasks = <<>>
    /\ selected = 0
    /\ app_mode = "Edit"
    /\ input_string = <<>>
    /\ raw_mode = FALSE
    /\ chan = <<>>
    /\ producer = "unspawned"
    /\ elapsed = 0
    /\ keyboard = {}
    /\ compose = NoCompose

\* main.rs 153-183
LoadTasks ==
    /\ pc = "load"
    /\ tasks' = LoadedTasks(day_tasks, today_file, weekday)
    /\ pc' = "loaded"
    /\ UNCHANGED <<weekday, day_tasks, today_file, selected, app_mode,
                   input_string, raw_mode, chan, producer, elapsed,
                   keyboard, compose>>

LoadNext == LoadTasks

LoadSpec == LoadInit /\ [][LoadNext]_vars

\* ------------------------------------------------ vocabulary of the load claims
Template == day_tasks.tasks
Saved == today_file.tasks
\* the snapshot the claims call usable: parsed, dated, saved on today's weekday
Usable == today_file.kind = "today" /\ today_file.date \in Weekdays /\ today_file.date = weekday
TemplateTexts == {Template[i] : i \in 1..Len(Template)}
SavedWith(text) == {j \in 1..Len(Saved) : Saved[j].info = text}
LastSavedWith(text) == CHOOSE j \in SavedWith(text) : \A k \in SavedWith(text) : k <= j
Unmatched(task) == task.info \notin TemplateTexts
\* the saved tasks that are the first of their text
FirstOfText(j) == \A k \in 1..(j - 1) : Saved[k].info # Saved[j].info
FirstUnmatchedIdx == {j \in 1..Len(Saved) : Unmatched(Saved[j]) /\ FirstOfText(j)}
RECURSIVE FirstUnmatchedFrom(_)
FirstUnmatchedFrom(j) ==
    IF j > Len(Saved) THEN <<>>
    ELSE IF j \in FirstUnmatchedIdx
         THEN <<Task(Saved[LastSavedWith(Saved[j].info)].status, Saved[j].info)>>
                  \o FirstUnmatchedFrom(j + 1)
         ELSE FirstUnmatchedFrom(j + 1)
\* template part of the list as the claims describe it
TemplatePartOk ==
    /\ Len(tasks) >= Len(Template)
    /\ \A i \in 1..Len(Template) :
          /\ tasks[i].info = Template[i]
          /\ tasks[i].status =
                IF SavedWith(Template[i]) = {} THEN "Todo"
                ELSE Saved[LastSavedWith(Template[i])].status
AppendedPart == SubSeq(tasks, Len(Template) + 1, Len(tasks))

\* C2 (as claimed): after a load with a usable snapshot the list is the
\* template tasks in template order, each Todo unless a saved task has its
\* text and then with a saved status of that text, followed by the saved tasks
\* that match no template task, in saved order with their saved status.
C2_Original ==
    (pc = "loaded" /\ Usable) =>
        /\ Len(tasks) >= Len(Template)
        /\ \A i \in 1..Len(Template) :
              /\ tasks[i].info = Template[i]
              /\ tasks[i].status \in
                    IF SavedWith(Template[i]) = {} THEN {"Todo"}
                    ELSE {Saved[j].status : j \in SavedWith(Template[i])}
        /\ AppendedPart = SelectSeq(Saved, Unmatched)

\* C2 (amended): after a load with a usable snapshot the list is the template
\* tasks in template order, each Todo unless a saved task has its text and then
\* with the status of the last saved task of that text, followed by one task
\* per distinct text of the saved tasks that match no template task, in the
\* order of the first saved task of each text and with the status of the last.
C2_MergeResult ==
    (pc = "loaded" /\ Usable) =>
        /\ TemplatePartOk
        /\ AppendedPart = FirstUnmatchedFrom(1)

\* C2 witness: the spec's example shape, a template of two texts, a saved
\* Done task matching the first and a saved task matching none
C2_Witness ==
    /\ pc = "loaded" /\ Usable
    /\ Template = << <<"a">>, <<"b">> >>
    /\ Saved = <<Task("Done", <<"a">>), Task("Todo", <<"c">>)>>
    /\ tasks = <<Task("Done", <<"a">>), Task("Todo", <<"b">>), Task("Todo", <<"c">>)>>

\* C3: after a load with an unusable snapshot (unreadable, malformed, without
\* date, or of another weekday) the list is the template tasks in template
\* order, all Todo, and nothing of the snapshot is in it.
C3_UnusableSnapshot ==
    (pc = "loaded" /\ ~Usable) =>
        /\ Len(tasks) = Len(Template)
        /\ \A i \in 1..Len(tasks) : tasks[i] = Task("Todo", Template[i])

\* C3 witness: a parsed snapshot of another weekday holding a Done task of a
\* template text and a task of no template text, and the load has run
C3_Witness ==
    /\ pc = "loaded"
    /\ today_file.kind = "today" /\ today_file.date \in Weekdays
    /\ today_file.date # weekday
    /\ Template = << <<"a">> >>
    /\ Saved = <<Task("Done", <<"a">>), Task("Done", <<"b">>)>>
    /\ tasks = <<Task("Todo", <<"a">>)>>

\* C4 (as claimed): the merged list holds one appended entry per saved task
\* whose text matches no template task, with its saved status.
C4_Original ==
    (pc = "loaded" /\ Usable) =>
        /\ Len(tasks) = Len(Template) + Len(SelectSeq(Saved, Unmatched))
        /\ \A j \in 1..Len(Saved) :
              Unmatched(Saved[j]) =>
                  \E p \in (Len(Template) + 1)..Len(tasks) : tasks[p] = Saved[j]

\* C4 (amended): the merged list holds one appended entry per distinct text of
\* the saved tasks that match no template task; a saved task whose text repeats
\* that of an earlier such task is not appended, it overwrites the status of
\* the entry of its text, so each entry has the status of the last saved task
\* of its text.
C4_AppendUnmatched ==
    (pc = "loaded" /\ Usable) =>
        /\ Len(tasks) =
              Len(Template) + Cardinality({Saved[j].info : j \in FirstUnmatchedIdx})
        /\ \A j \in 1..Len(Saved) :
              Unmatched(Saved[j]) =>
                  \E p \in (Len(Template) + 1)..Len(tasks) :
                      /\ tasks[p].info = Saved[j].info
                      /\ tasks[p].status = Saved[LastSavedWith(Saved[j].info)].status
                      /\ \A q \in 1..Len(tasks) :
                            tasks[q].info = Saved[j].info => q = p

\* C4 witness: two saved tasks of one text that is in no template task, with
\* different statuses, merged into one entry with the second status
C4_Witness ==
    /\ pc = "loaded" /\ Usable
    /\ Template = << <<"a">> >>
    /\ Saved = <<Task("Todo", <<"b">>), Task("Done", <<"b">>)>>
    /\ tasks = <<Task("Todo", <<"a">>), Task("Done", <<"b">>)>>

\* the template positions whose text is that of an earlier template position
LaterDuplicate(i) == \E k \in 1..(i - 1) : Template[k] = Template[i]

\* C5 (as claimed): first match only: a template task whose text is that of
\* an earlier template task keeps its status (Todo) through the merge.
C5_Original ==
    (pc = "loaded" /\ Usable) =>
        \A i \in 1..Len(Template) :
            LaterDuplicate(i) => tasks[i].status = "Todo"

\* C5 (amended): every match: a saved task overwrites the status of every
\* template task of its text, so template tasks of one text end with one
\* status, that of the last saved task of the text.
C5_EveryMatch ==
    (pc = "loaded" /\ Usable) =>
        \A i \in 1..Len(Template) :
            SavedWith(Template[i]) # {} =>
                \A k \in 1..Len(Template) :
                    Template[k] = Template[i] =>
                        tasks[k].status = Saved[LastSavedWith(Template[i])].status

\* C5 witness: a template with one text twice and one saved Done task of it
C5_Witness ==
    /\ pc = "loaded" /\ Usable
    /\ Template = << <<"a">>, <<"a">> >>
    /\ Saved = <<Task("Done", <<"a">>)>>
    /\ tasks = <<Task("Done", <<"a">>), Task("Done", <<"a">>)>>

\* C6: merge idempotence: loading the same template with a same-weekday
\* snapshot equal to the merged list gives the merged list again.
C6_MergeIdempotent ==
    (pc = "loaded" /\ Usable) =>
        LoadedTasks(day_tasks, FileToday(tasks, weekday), weekday) = tasks

\* C6 witness: a merge that changed a status, kept a duplicate template text
\* and appended a task
C6_Witness ==
    /\ pc = "loaded" /\ Usable
    /\ Template = << <<"a">>, <<"a">> >>
    /\ Saved = <<Task("Done", <<"a">>), Task("Done", <<"b">>)>>
    /\ Len(tasks) = 3

\* ------------------------------------------------------ data of a session
\* KeyCode: Char(c) and the codes without a character
Char(c) == [code |-> "Char", ch |-> c]
Key(code) == [code |-> code, ch |-> ""]

\* the characters main.rs 260-296 matches in Edit mode
CommandChars == {"j", "k", "l", "h", "i", "x", "q"}
\* the characters the user types as task text: one suffices to tell texts
\* apart by their length, and `q` is a command in Edit mode
TypedChars == {"q"}
\* the keys the user presses while the list is shown (Edit mode) and while the
\* "new task" box is shown (Insert mode)
EditKeys ==
    {Char(c) : c \in CommandChars \cup keyboard}
        \cup {Key("Esc"), Key("Enter"), Key("Backspace"), Key("Tab")}
InsertKeys ==
    {Char(c) : c \in keyboard}
        \cup {Key("Esc"), Key("Enter"), Key("Backspace"), Key("Tab")}

\* events.rs 31: Config::default().tick_rate, in milliseconds
TickRate == 250
\* the durations after which event::poll returns within its timeout, in
\* steps of half a tick rate
PollTimes(timeout) == {d \in {0, TickRate \div 2, TickRate} : d <= timeout}

\* `n as usize >= len` for an i32 n and a Vec length len: a negative n converts
\* to a value above every length
AsUsizeGe(n, len) == n < 0 \/ n >= len

\* Vec::remove(index), index counted from 0
Remove(ts, index) ==
    [i \in 1..(Len(ts) - 1) |-> IF i <= index THEN ts[i] ELSE ts[i + 1]]

\* the task lists a load can leave: loading the texts of the list as template
\* with the list as same-weekday snapshot gives the list
SessionTextsOver(chars) == SeqsUpTo(chars, MaxInput)
StartTasksOver(chars) ==
    {l \in SeqsUpTo([status : Status, info : SessionTextsOver(chars)], MaxTasks) :
        LoadedTasks(DayTasksSome([i \in 1..Len(l) |-> l[i].info]),
                    FileToday(l, "Mon"), "Mon") = l}
SessionTexts == SessionTextsOver(TypedChars)
StartTasks == StartTasksOver(TypedChars)

Running == pc \in {"enable_raw_mode", "terminal_new", "events_new", "draw", "recv"}

\* ------------------------------------------- specification of a session
\* the state at main.rs 186, after the load; the session does not read the
\* inputs of the load again, and today.json holds what was there before
Init ==
    /\ pc = "enable_raw_mode"
    /\ weekday = "Mon"
    /\ day_tasks = DayTasksNone
    /\ today_file = FileOld
    /\ tasks \in StartTasks
    /\ selected = 0
    /\ app_mode = "Edit"
    /\ input_string = <<>>
    /\ raw_mode = FALSE
    /\ chan = <<>>
    /\ producer = "unspawned"
    /\ elapsed = 0
    /\ keyboard = TypedChars
    /\ compose = NoCompose

\* -------------------------------------------------- terminal set-up, draw
\* main.rs 186: enable_raw_mode().unwrap()
EnableRawMode ==
    /\ pc = "enable_raw_mode"
    /\ \/ raw_mode' = TRUE /\ pc' = "terminal_new"
       \/ raw_mode' = raw_mode /\ pc' = "panicked"
    /\ UNCHANGED <<weekday, day_tasks, today_file, tasks, selected, app_mode,
                   input_string, chan, producer, elapsed,
                   keyboard, compose>>

\* main.rs 187-190: Terminal::new(backend)? and terminal.clear().unwrap()
TerminalNew ==
    /\ pc = "terminal_new"
    /\ pc' \in {"events_new", "returned_err", "panicked"}
    /\ UNCHANGED <<weekday, day_tasks, today_file, tasks, selected, app_mode,
                   input_string, raw_mode, chan, producer, elapsed,
                   keyboard, compose>>

\* main.rs 192-195 with events.rs 37-68: the locals of the loop, the channel
\* and the producer thread with last_tick = Instant::now()
EventsNew ==
    /\ pc = "events_new"
    /\ selected' = 0
    /\ app_mode' = "Edit"
    /\ input_string' = <<>>
    /\ chan' = <<>>
    /\ producer' = "running"
    /\ elapsed' = 0
    /\ pc' = "draw"
    /\ UNCHANGED <<weekday, day_tasks, today_file, tasks, raw_mode,
                   keyboard, compose>>

\* main.rs 198-253: terminal.draw(...)?
Draw ==
    /\ pc = "draw"
    /\ pc' \in {"recv", "returned_err"}
    /\ compose' = IF compose.active THEN compose ELSE NoCompose
    /\ UNCHANGED <<weekday, day_tasks, today_file, tasks, selected, app_mode,
                   input_string, raw_mode, chan, producer, elapsed,
                   keyboard>>

\* ------------------------------------------------ the producer thread
\* an end of iteration that sends the Tick only when nothing else was sent
EndOfIterationTickOnIdle(sent, d) ==
    IF elapsed + d >= TickRate /\ sent = <<>>
    THEN /\ Len(chan) + 1 <= MaxChan
         /\ chan' = chan \o <<"Tick">>
         /\ elapsed' = 0
    ELSE /\ Len(chan) + Len(sent) <= MaxChan
         /\ chan' = chan \o sent
         /\ elapsed' = elapsed + d

\* events.rs 57-60 at the end of an iteration that sent the messages sent and
\* took d milliseconds: the Tick when the tick rate has elapsed
EndOfIteration(sent, d) ==
    IF elapsed + d >= TickRate
    THEN /\ Len(chan) + Len(sent) + 1 <= MaxChan
         /\ chan' = chan \o sent \o <<"Tick">>
         /\ elapsed' = 0
    ELSE /\ Len(chan) + Len(sent) <= MaxChan
         /\ chan' = chan \o sent
         /\ elapsed' = elapsed + d

\* events.rs 49-51
Timeout == IF TickRate >= elapsed THEN TickRate - elapsed ELSE 0

\* events.rs 48-61, poll returns true and read returns a key: the Input is
\* sent; which key it carries is drawn where the message is received
ProducerInput ==
    /\ Running /\ producer = "running"
    /\ \E d \in PollTimes(Timeout) : EndOfIteration(<<"Input">>, d)
    /\ UNCHANGED <<pc, weekday, day_tasks, today_file, tasks, selected,
                   app_mode, input_string, raw_mode, producer,
                   keyboard, compose>>

\* events.rs 48-61, poll returns true and read returns an event that is no
\* key (mouse, resize): nothing is sent for it
ProducerOtherEvent ==
    /\ Running /\ producer = "running"
    /\ \E d \in PollTimes(Timeout) : EndOfIteration(<<>>, d)
    /\ UNCHANGED <<pc, weekday, day_tasks, today_file, tasks, selected,
                   app_mode, input_string, raw_mode, producer,
                   keyboard, compose>>

\* events.rs 48-61, poll returns false after the timeout
ProducerTimeout ==
    /\ Running /\ producer = "running"
    /\ EndOfIteration(<<>>, Timeout)
    /\ UNCHANGED <<pc, weekday, day_tasks, today_file, tasks, selected,
                   app_mode, input_string, raw_mode, producer,
                   keyboard, compose>>

\* events.rs 52-53: poll or read returns Err and unwrap panics; the thread
\* ends and its Sender is dropped
ProducerPanic ==
    /\ Running /\ producer = "running"
    /\ producer' = "dead"
    /\ elapsed' = 0
    /\ UNCHANGED <<pc, weekday, day_tasks, today_file, tasks, selected,
                   app_mode, input_string, raw_mode, chan,
                   keyboard, compose>>

\* ------------------------------------------------------- the main loop
\* events.rs 70-72 with main.rs 255-256: recv returns Ok(Event::Input(key)),
\* key being one of the keys the user presses in the mode shown
RecvInput(key) ==
    /\ pc = "recv"
    /\ chan # <<>> /\ Head(chan) = "Input"
    /\ key \in (IF app_mode = "Edit" THEN EditKeys ELSE InsertKeys)
    /\ chan' = Tail(chan)

\* what no key handler changes
Frame == UNCHANGED <<weekday, day_tasks, producer, elapsed, keyboard>>

\* main.rs 255-256: recv returns Ok(Event::Tick), the loop body does nothing
RecvTick ==
    /\ pc = "recv"
    /\ chan # <<>> /\ Head(chan) = "Tick"
    /\ chan' = Tail(chan)
    /\ pc' = "draw"
    /\ Frame
    /\ UNCHANGED <<today_file, tasks, selected, app_mode, input_string, raw_mode,
                   compose>>

\* main.rs 255: recv returns Err(RecvError), the channel is empty and the
\* Sender is gone; `for event in` over the Err runs no iteration and the loop
\* goes on with the next draw
RecvDisconnected ==
    /\ pc = "recv"
    /\ chan = <<>> /\ producer = "dead"
    /\ pc' = "draw"
    /\ Frame
    /\ UNCHANGED <<today_file, tasks, selected, app_mode, input_string,
                   raw_mode, chan,
                   compose>>

\* variant of MoveDown with > for >= at line 262
MoveDownPastEnd(sel, len) ==
    IF sel + 1 < 0 \/ sel + 1 > len THEN 0 ELSE sel + 1

\* main.rs 261-264: the selection after `j` with len tasks
MoveDown(sel, len) ==
    IF AsUsizeGe(sel + 1, len) THEN 0 ELSE sel + 1

\* main.rs 267-270: the selection after `k` with len tasks, where the
\* subtraction of line 269 does not panic (on an empty Vec it wraps, and
\* usize::MAX as i32 is -1)
MoveUp(sel, len) ==
    IF sel - 1 < 0 THEN len - 1 ELSE sel - 1

\* main.rs 260-265
KeyJ ==
    /\ app_mode = "Edit" /\ RecvInput(Char("j"))
    /\ selected' = MoveDown(selected, Len(tasks))
    /\ pc' = "draw"
    /\ Frame
    /\ UNCHANGED <<today_file, tasks, app_mode, input_string, raw_mode,
                   compose>>

\* main.rs 266-271; tasks.len() - 1 on an empty Vec overflows usize: a panic
\* in a build with overflow checks, usize::MAX otherwise, which `as i32` makes -1
KeyK ==
    /\ app_mode = "Edit" /\ RecvInput(Char("k"))
    /\ IF selected - 1 >= 0 \/ Len(tasks) > 0
       THEN selected' = MoveUp(selected, Len(tasks)) /\ pc' = "draw"
       ELSE \/ selected' = selected - 1 /\ pc' = "panicked"
            \/ selected' = MoveUp(selected, Len(tasks)) /\ pc' = "draw"
    /\ Frame
    /\ UNCHANGED <<today_file, tasks, app_mode, input_string, raw_mode,
                   compose>>

\* a mark that flips the status of the selected task, whatever the key
SetStatusFlip(status) ==
    IF AsUsizeGe(selected, Len(tasks))
    THEN tasks' = tasks /\ pc' = "panicked"
    ELSE /\ tasks' = [tasks EXCEPT ![selected + 1].status =
                         IF @ = "Done" THEN "Todo" ELSE "Done"]
         /\ pc' = "draw"

\* main.rs 272-276 (status Done) and 277-281 (status Todo):
\* tasks.get_mut(selected as usize).unwrap()
SetStatus(status) ==
    IF AsUsizeGe(selected, Len(tasks))
    THEN tasks' = tasks /\ pc' = "panicked"
    ELSE tasks' = [tasks EXCEPT ![selected + 1].status = status] /\ pc' = "draw"

\* main.rs 272-276
KeyL ==
    /\ app_mode = "Edit" /\ RecvInput(Char("l"))
    /\ SetStatus("Done")
    /\ Frame
    /\ UNCHANGED <<today_file, selected, app_mode, input_string, raw_mode,
                   compose>>

\* main.rs 277-281
KeyH ==
    /\ app_mode = "Edit" /\ RecvInput(Char("h"))
    /\ SetStatus("Todo")
    /\ Frame
    /\ UNCHANGED <<today_file, selected, app_mode, input_string, raw_mode,
                   compose>>

\* main.rs 283-286
KeyI ==
    /\ app_mode = "Edit" /\ RecvInput(Char("i"))
    /\ app_mode' = "Insert"
    /\ pc' = "draw"
    /\ Frame
    /\ UNCHANGED <<today_file, tasks, selected, input_string, raw_mode>>
    /\ compose' = [active |-> TRUE, tasks |-> tasks, selected |-> selected,
                   typed |-> <<>>, ended |-> "none"]

\* main.rs 287-295
KeyX ==
    /\ app_mode = "Edit" /\ RecvInput(Char("x"))
    /\ IF selected >= 0 /\ selected < Len(tasks)
       THEN /\ tasks' = Remove(tasks, selected)
            /\ selected' = IF AsUsizeGe(selected, Len(tasks'))
                           THEN Len(tasks') - 1 ELSE selected
       ELSE UNCHANGED <<tasks, selected>>
    /\ pc' = "draw"
    /\ Frame
    /\ UNCHANGED <<today_file, app_mode, input_string, raw_mode,
                   compose>>

\* main.rs 115-124: the write of today.json, whose result is dropped; the
\* date is Local::now() at the time of the save.  std::fs::write that fails
\* leaves the file as it was or, once created anew, with part of the text
save_today ==
    \/ \E now \in Weekdays : today_file' = FileToday(tasks, now)
    \/ today_file' \in {today_file, FileMalformed}

\* main.rs 296-304; both sides of the unresolved merge call
\* disable_raw_mode, the one drops an Err, the other unwraps it
KeyQ ==
    /\ app_mode = "Edit" /\ RecvInput(Char("q"))
    /\ save_today
    /\ \/ raw_mode' = FALSE /\ pc' = "returned_ok"
       \/ raw_mode' = raw_mode /\ pc' \in {"returned_ok", "panicked"}
    /\ Frame
    /\ UNCHANGED <<tasks, selected, app_mode, input_string,
                   compose>>

\* main.rs 305: any other key in Edit mode
KeyOtherEdit ==
    /\ app_mode = "Edit"
    /\ \E key \in EditKeys \ {Char(c) : c \in CommandChars} : RecvInput(key)
    /\ pc' = "draw"
    /\ Frame
    /\ UNCHANGED <<today_file, tasks, selected, app_mode, input_string, raw_mode,
                   compose>>

\* an Esc handler that keeps the text, as if the draft were pushed as a task
KeyEscSubmit ==
    /\ app_mode = "Insert" /\ RecvInput(Key("Esc"))
    /\ app_mode' = "Edit"
    /\ tasks' = IF Len(tasks) < MaxTasks
                THEN Append(tasks, Task("Todo", input_string)) ELSE tasks
    /\ input_string' = <<>>
    /\ pc' = "draw"
    /\ Frame
    /\ UNCHANGED <<today_file, selected, raw_mode>>
    /\ compose' = [compose EXCEPT !.active = FALSE, !.ended = "Esc"]

\* an Esc handler without input_string.clear()
KeyEscKeepDraft ==
    /\ app_mode = "Insert" /\ RecvInput(Key("Esc"))
    /\ app_mode' = "Edit"
    /\ pc' = "draw"
    /\ Frame
    /\ UNCHANGED <<today_file, tasks, selected, input_string, raw_mode>>
    /\ compose' = [compose EXCEPT !.active = FALSE, !.ended = "Esc"]

\* main.rs 310-313
KeyEsc ==
    /\ app_mode = "Insert" /\ RecvInput(Key("Esc"))
    /\ app_mode' = "Edit"
    /\ input_string' = <<>>
    /\ pc' = "draw"
    /\ Frame
    /\ UNCHANGED <<today_file, tasks, selected, raw_mode>>
    /\ compose' = [compose EXCEPT !.active = FALSE, !.ended = "Esc"]

\* an Enter handler that clones the text and leaves input_string as it is
KeyEnterKeepDraft ==
    /\ app_mode = "Insert" /\ RecvInput(Key("Enter"))
    /\ Len(tasks) < MaxTasks
    /\ app_mode' = "Edit"
    /\ tasks' = Append(tasks, Task("Todo", input_string))
    /\ pc' = "draw"
    /\ Frame
    /\ UNCHANGED <<today_file, selected, input_string, raw_mode>>
    /\ compose' = [compose EXCEPT !.active = FALSE, !.ended = "Enter"]

\* main.rs 314-322: input_string.drain(..).collect() moves the text into the
\* task and leaves the String empty; the model stops adding at MaxTasks
KeyEnter ==
    /\ app_mode = "Insert" /\ RecvInput(Key("Enter"))
    /\ Len(tasks) < MaxTasks
    /\ app_mode' = "Edit"
    /\ tasks' = Append(tasks, Task("Todo", input_string))
    /\ input_string' = <<>>
    /\ pc' = "draw"
    /\ Frame
    /\ UNCHANGED <<today_file, selected, raw_mode>>
    /\ compose' = [compose EXCEPT !.active = FALSE, !.ended = "Enter"]

\* main.rs 323-325: String::pop
KeyBackspace ==
    /\ app_mode = "Insert" /\ RecvInput(Key("Backspace"))
    /\ input_string' = IF input_string = <<>> THEN <<>>
                       ELSE SubSeq(input_string, 1, Len(input_string) - 1)
    /\ pc' = "draw"
    /\ Frame
    /\ UNCHANGED <<today_file, tasks, selected, app_mode, raw_mode>>
    /\ compose' = [compose EXCEPT
                      !.typed = SubSeq(@, 1, IF Len(@) = 0 THEN 0 ELSE Len(@) - 1)]

\* a Char handler of Insert mode that takes `q` as the quit command
KeyCharQuits ==
    /\ app_mode = "Insert"
    /\ Len(input_string) < MaxInput
    /\ \E c \in keyboard :
          /\ RecvInput(Char(c))
          /\ IF c = "q"
             THEN /\ save_today
                  /\ raw_mode' = FALSE
                  /\ pc' = "returned_ok"
                  /\ UNCHANGED <<input_string, compose>>
             ELSE /\ input_string' = Append(input_string, c)
                  /\ compose' = [compose EXCEPT !.typed = Append(@, c)]
                  /\ pc' = "draw"
                  /\ UNCHANGED <<today_file, raw_mode>>
    /\ Frame
    /\ UNCHANGED <<tasks, selected, app_mode>>

\* main.rs 326-328; the model stops typing at MaxInput characters
KeyChar ==
    /\ app_mode = "Insert"
    /\ Len(input_string) < MaxInput
    /\ \E c \in keyboard :
          /\ RecvInput(Char(c))
          /\ input_string' = Append(input_string, c)
          /\ compose' = [compose EXCEPT !.typed = Append(@, c)]
    /\ pc' = "draw"
    /\ Frame
    /\ UNCHANGED <<today_file, tasks, selected, app_mode, raw_mode>>

\* main.rs 329: any other key in Insert mode
KeyOtherInsert ==
    /\ app_mode = "Insert" /\ RecvInput(Key("Tab"))
    /\ pc' = "draw"
    /\ Frame
    /\ UNCHANGED <<today_file, tasks, selected, app_mode, input_string, raw_mode,
                   compose>>

Next ==
    \/ EnableRawMode
    \/ TerminalNew
    \/ EventsNew
    \/ Draw
    \/ ProducerInput
    \/ ProducerOtherEvent
    \/ ProducerTimeout
    \/ ProducerPanic
    \/ RecvTick
    \/ RecvDisconnected
    \/ KeyJ
    \/ KeyK
    \/ KeyL
    \/ KeyH
    \/ KeyI
    \/ KeyX
    \/ KeyQ
    \/ KeyOtherEdit
    \/ KeyEsc
    \/ KeyEnter
    \/ KeyBackspace
    \/ KeyChar
    \/ KeyOtherInsert

Spec == Init /\ [][Next]_vars

\* ------------------------------------------------ the session claims
\* C1: whenever the task list is non-empty the selected index is within
\* 0 .. len(tasks)-1, after any sequence of key events.
C1_SelectedInRange ==
    Len(tasks) > 0 => (0 <= selected /\ selected <= Len(tasks) - 1)

\* C7: raw mode is on while the main loop runs and is off whenever main has
\* returned, through the quit key or through an error of Terminal::new or draw.
C7_RawModeReleased ==
    /\ pc \in {"draw", "recv"} => raw_mode
    /\ pc \in {"returned_ok", "returned_err"} => ~raw_mode

\* C8: when the producer thread has ended and the channel is disconnected,
\* the failed receive ends the main loop: the program leaves with a failure
\* and does not go on running.
C8_DisconnectIsFatal ==
    [][(pc = "recv" /\ producer = "dead" /\ chan = <<>>)
          => pc' \in {"returned_err", "panicked"}]_vars

\* C9: in Edit mode with an empty task list the mark-done and mark-todo keys
\* change neither the list nor the selection nor the mode, and do not fail.
C9_MarkOnEmptyIsNoOp ==
    [][(tasks = <<>> /\ (KeyL \/ KeyH))
          => (pc' # "panicked" /\ UNCHANGED <<tasks, selected, app_mode>>)]_vars

\* C10: in Edit mode with an empty task list the move-down and move-up keys
\* change neither the selection nor the list nor the mode, and do not fail.
C10_MoveOnEmptyIsNoOp ==
    [][(tasks = <<>> /\ (KeyJ \/ KeyK))
          => (pc' # "panicked" /\ UNCHANGED <<selected, tasks, app_mode>>)]_vars

RECURSIVE DownTimes(_, _, _)
\* the selection after n presses of `j` from sel with len tasks
DownTimes(n, sel, len) ==
    IF n = 0 THEN sel ELSE DownTimes(n - 1, MoveDown(sel, len), len)

RECURSIVE UpTimes(_, _, _)
\* the selection after n presses of `k` from sel with len tasks
UpTimes(n, sel, len) ==
    IF n = 0 THEN sel ELSE UpTimes(n - 1, MoveUp(sel, len), len)

\* C11: with N >= 1 tasks and the selection s within 0..N-1, `j` sets the
\* selection to (s+1) mod N and `k` to (s-1+N) mod N, neither changes the
\* task list, and N presses of `j`, as N presses of `k`, lead back to s.
C11_Wraparound ==
    /\ [][(Len(tasks) >= 1 /\ selected \in 0..(Len(tasks) - 1)) =>
             /\ KeyJ => /\ selected' = (selected + 1) % Len(tasks)
                        /\ tasks' = tasks
             /\ KeyK => /\ selected' = (selected - 1 + Len(tasks)) % Len(tasks)
                        /\ tasks' = tasks]_vars
    /\ [](\A s \in 0..(Len(tasks) - 1) :
             /\ DownTimes(Len(tasks), s, Len(tasks)) = s
             /\ UpTimes(Len(tasks), s, Len(tasks)) = s)

\* C11 witness: two tasks and the selection moved to the last of them
C11_Witness ==
    /\ Len(tasks) = 2 /\ selected = 1
    /\ app_mode = "Edit" /\ pc = "draw"

\* C12: in Edit mode with a non-empty list `x` removes exactly the task at the
\* selected index and keeps the others, with their status, in their order;
\* the selection becomes len-1 of the new list when the removed task was the
\* last-indexed one and the new list is non-empty, and is unchanged otherwise.
C12_Delete ==
    [][(KeyX /\ Len(tasks) >= 1) =>
          /\ selected \in 0..(Len(tasks) - 1)
          /\ Len(tasks') = Len(tasks) - 1
          /\ \A i \in 1..Len(tasks') :
                tasks'[i] = IF i <= selected THEN tasks[i] ELSE tasks[i + 1]
          /\ selected' = IF selected = Len(tasks) - 1 /\ Len(tasks') >= 1
                         THEN Len(tasks') - 1
                         ELSE selected]_vars

\* C13: when Insert mode, entered from Edit mode with `i`, is ended by Enter,
\* the list is the list as it was on entering plus exactly one trailing task
\* with status Todo whose info is the text typed (characters less
\* backspaces); the selection is as it was on entering, the mode is Edit and
\* input_string is empty.
C13_ComposeRoundTrip ==
    compose.ended = "Enter" =>
        /\ tasks = Append(compose.tasks, Task("Todo", compose.typed))
        /\ selected = compose.selected
        /\ app_mode = "Edit"
        /\ input_string = <<>>

\* C13 witness: a non-empty text was typed after one existing task and
\* confirmed
C13_Witness ==
    /\ compose.ended = "Enter"
    /\ compose.typed # <<>>
    /\ Len(compose.tasks) = 1
    /\ Len(tasks) = 2 /\ tasks[2].info = compose.typed

\* C14: when Insert mode is ended by Esc, the list (tasks, statuses, order)
\* and the selection are as they were on entering, the mode is Edit and
\* input_string is empty.
C14_CancelDiscards ==
    compose.ended = "Esc" =>
        /\ tasks = compose.tasks
        /\ selected = compose.selected
        /\ app_mode = "Edit"
        /\ input_string = <<>>

\* C14 witness: a non-empty text was typed and cancelled, with a task in the
\* list
C14_Witness ==
    /\ compose.ended = "Esc"
    /\ compose.typed # <<>>
    /\ Len(tasks) >= 1

\* what a step appended to the channel
Sent == SubSeq(chan', Len(chan) + 1, Len(chan'))

\* C15: every iteration of the producer appends to the channel the Input, if
\* it read a key, and after it a Tick if the time since the last Tick has
\* reached the tick rate, which restarts the tick clock; an iteration that
\* appends no Tick ends with less than the tick rate elapsed, with or without
\* an Input.  So at the end of every iteration the time since the last Tick
\* is below the tick rate, under key presses as without them.
C15_TickWhenDue ==
    /\ [][(ProducerInput \/ ProducerOtherEvent \/ ProducerTimeout) =>
             /\ Len(chan') >= Len(chan)
             /\ SubSeq(chan', 1, Len(chan)) = chan
             /\ Sent \in {<<>>, <<"Input">>, <<"Tick">>, <<"Input", "Tick">>}
             /\ IF Sent # <<>> /\ Sent[Len(Sent)] = "Tick"
                THEN elapsed' = 0
                ELSE elapsed' >= elapsed /\ elapsed' < TickRate]_vars
    /\ [](elapsed < TickRate)

\* C15 witness: a key arrived when the tick rate had elapsed, and the Input
\* is followed by the Tick
C15_Witness ==
    /\ chan = <<"Input", "Tick">>
    /\ elapsed = 0
    /\ producer = "running"

\* C16: `q` in Edit mode writes today.json with the task list as it is and
\* the current date (or the write fails, which is not repeated and does not
\* stop the exit), then the terminal is out of raw mode and main has
\* returned Ok; no other step writes the file.
C16_QuitSavesOnce ==
    [][/\ KeyQ => /\ today_file' \in {FileToday(tasks, now) : now \in Weekdays}
                                       \cup {today_file, FileMalformed}
                  /\ ~raw_mode'
                  /\ pc' = "returned_ok"
       /\ today_file' # today_file => KeyQ]_vars

\* the list ts with the status of the task at index sel (from 0) set
Marked(ts, sel, status) ==
    [i \in 1..Len(ts) |->
        IF i = sel + 1 THEN [status |-> status, info |-> ts[i].info] ELSE ts[i]]

\* C17: with a selection within the list, `l` sets the status of the
\* selected task to Done and `h` sets it to Todo, whatever it was; the other
\* tasks, the texts, the order, the length, the selection and the mode are
\* unchanged, and the program goes on; a second application of the same key
\* changes nothing.
C17_MarkIsSet ==
    [][(selected \in 0..(Len(tasks) - 1)) =>
          /\ KeyL => /\ tasks' = Marked(tasks, selected, "Done")
                     /\ Marked(tasks', selected', "Done") = tasks'
          /\ KeyH => /\ tasks' = Marked(tasks, selected, "Todo")
                     /\ Marked(tasks', selected', "Todo") = tasks'
          /\ (KeyL \/ KeyH) =>
                /\ UNCHANGED <<selected, app_mode>>
                /\ pc' = "draw"
                /\ (tasks[selected + 1].status = (IF KeyL THEN "Done" ELSE "Todo")
                        => tasks' = tasks)]_vars

\* C17 witness: the second of two tasks is selected and Done, the first is
\* Todo, after a key of Edit mode was handled
C17_Witness ==
    /\ Len(tasks) = 2 /\ selected = 1
    /\ tasks[1].status = "Todo" /\ tasks[2].status = "Done"
    /\ app_mode = "Edit" /\ pc = "draw" /\ compose = NoCompose

\* C18: input_string is empty in every state whose mode is Edit, so every
\* `i` that takes Edit mode to Insert mode starts it with an empty
\* input_string, whatever came before.
C18_DraftEmptyInEdit ==
    /\ [](app_mode = "Edit" => input_string = <<>>)
    /\ [][KeyI => (app_mode' = "Insert" /\ input_string' = <<>>)]_vars

\* C18 witness: Insert mode was entered, with nothing typed yet, from a list
\* that an earlier Insert mode had extended to two tasks or that had them
C18_Witness ==
    /\ app_mode = "Insert" /\ pc = "draw"
    /\ compose.active /\ compose.typed = <<>> /\ Len(compose.tasks) = 2
    /\ input_string = <<>>

\* ------------------------- specification of a session and the next start
\* The first start of a day finds no today.json and builds the list from the
\* template; the session that follows deletes no task; after the quit that
\* saved, the program is started again with the same tasks.json, and the
\* model follows the run up to the end of that load.
\* the templates: no entry for the weekday, one task with a text that the
\* user does not type, one task with a text that the user can type
ReloadTemplates ==
    {DayTasksNone, DayTasksSome(<< <<"a">> >>), DayTasksSome(<< <<"q">> >>)}

ReloadInit ==
    /\ pc = "load"
    /\ weekday = "Mon"
    /\ day_tasks \in ReloadTemplates
    /\ today_file = FileUnreadable
    /\ tasks = <<>>
    /\ selected = 0
    /\ app_mode = "Edit"
    /\ input_string = <<>>
    /\ raw_mode = FALSE
    /\ chan = <<>>
    /\ producer = "unspawned"
    /\ elapsed = 0
    /\ keyboard = TypedChars
    /\ compose = NoCompose

\* main.rs 183-186: from the load on to the terminal set-up; the model goes
\* on into the session only of the start that found no today.json
StartSession ==
    /\ pc = "loaded" /\ today_file = FileUnreadable
    /\ pc' = "enable_raw_mode"
    /\ UNCHANGED <<weekday, day_tasks, today_file, tasks, selected, app_mode,
                   input_string, raw_mode, chan, producer, elapsed,
                   keyboard, compose>>

\* the next start of the program after a run that `q` ended with today.json
\* written: main.rs 126-154 with the locals of a new process, the weekday of
\* the new start, and the files as the last run left them
Restart ==
    /\ pc \in {"returned_ok", "panicked"} /\ today_file.kind = "today"
    /\ pc' = "load"
    /\ weekday' \in Weekdays
    /\ tasks' = <<>>
    /\ selected' = 0
    /\ app_mode' = "Edit"
    /\ input_string' = <<>>
    /\ chan' = <<>>
    /\ producer' = "unspawned"
    /\ elapsed' = 0
    /\ compose' = NoCompose
    /\ UNCHANGED <<day_tasks, today_file, raw_mode, keyboard>>

ReloadNext ==
    \/ LoadTasks
    \/ StartSession
    \/ EnableRawMode
    \/ TerminalNew
    \/ EventsNew
    \/ Draw
    \/ ProducerInput
    \/ ProducerOtherEvent
    \/ ProducerTimeout
    \/ ProducerPanic
    \/ RecvTick
    \/ RecvDisconnected
    \/ KeyJ
    \/ KeyK
    \/ KeyL
    \/ KeyH
    \/ KeyI
    \/ KeyQ
    \/ KeyOtherEdit
    \/ KeyEsc
    \/ KeyEnter
    \/ KeyBackspace
    \/ KeyChar
    \/ KeyOtherInsert
    \/ Restart

ReloadSpec == ReloadInit /\ [][ReloadNext]_vars

\* the load has run at a start that found the today.json of the session
\* before, saved on the weekday of this start
ReloadedSameDay ==
    /\ pc = "loaded"
    /\ today_file.kind = "today"
    /\ today_file.date = weekday

\* no two tasks of the list have the same text
DistinctTexts(ts) ==
    \A i, j \in 1..Len(ts) : ts[i].info = ts[j].info => i = j

\* a task of the list behind the template tasks, so one added in Insert mode
\* of the session, has the text of a task before it
AddedRepeatsText(ts) ==
    \E i \in (Len(day_tasks.tasks) + 1)..Len(ts) :
        \E j \in 1..(i - 1) : ts[j].info = ts[i].info

\* C19 as stated: after a session that deleted no task, the list built at
\* the next start on the same weekday with the same template is the list
\* saved at quit, also when a task added in Insert mode has the text of
\* another task.
C19_Original ==
    ReloadedSameDay => tasks = today_file.tasks

\* C19: after a session that deleted no task, the list built at the next
\* start on the same weekday with the same template is the list saved at
\* quit (number, texts, statuses, order) provided no two saved tasks have
\* the same text; the built list is never longer than the saved one, and
\* it is shorter whenever a task added in Insert mode has the text of a task
\* before it.
C19_SaveReload ==
    ReloadedSameDay =>
        /\ DistinctTexts(today_file.tasks) => tasks = today_file.tasks
        /\ Len(tasks) <= Len(today_file.tasks)
        /\ AddedRepeatsText(today_file.tasks) =>
              Len(tasks) < Len(today_file.tasks)

\* C19 witness: a task typed in the session, with a text that is not in the
\* template, and a template task marked Done are back after the reload
C19_Witness ==
    /\ ReloadedSameDay
    /\ Len(day_tasks.tasks) = 1 /\ Len(tasks) = 2
    /\ tasks[1].status = "Done"
    /\ tasks[2].info # tasks[1].info
    /\ tasks = today_file.tasks

\* ------------------ specification of sessions typing the command letters
\* A session in which the character the user types as task text is, in each
\* run, one of the letters that are commands in Edit mode.  In Edit mode the
\* user moves the selection, enters Insert mode and quits; marking and
\* deleting, which Spec covers, are left out of these runs.
ComposeTasks == {<<>>, <<Task("Done", <<"a">>)>>}

ComposeInit ==
    /\ pc = "enable_raw_mode"
    /\ weekday = "Mon"
    /\ day_tasks = DayTasksNone
    /\ today_file = FileOld
    /\ tasks \in ComposeTasks
    /\ selected = 0
    /\ app_mode = "Edit"
    /\ input_string = <<>>
    /\ raw_mode = FALSE
    /\ chan = <<>>
    /\ producer = "unspawned"
    /\ elapsed = 0
    /\ keyboard \in {{c} : c \in CommandChars}
    /\ compose = NoCompose

ComposeNext ==
    \/ EnableRawMode
    \/ TerminalNew
    \/ EventsNew
    \/ Draw
    \/ ProducerInput
    \/ ProducerOtherEvent
    \/ ProducerTimeout
    \/ ProducerPanic
    \/ RecvTick
    \/ RecvDisconnected
    \/ KeyJ
    \/ KeyK
    \/ KeyI
    \/ KeyQ
    \/ KeyOtherEdit
    \/ KeyEsc
    \/ KeyEnter
    \/ KeyBackspace
    \/ KeyChar
    \/ KeyOtherInsert

ComposeSpec == ComposeInit /\ [][ComposeNext]_vars

\* a step of the main loop that takes a message, or the disconnection, from
\* the channel
MainStep == pc = "recv" /\ pc' # "recv"

\* C20: while the mode is Insert, a letter that is a command in Edit mode
\* (j, k, l, h, x, i, q) is appended to input_string and does nothing else;
\* no step of the main loop but the Enter that pushes the draft changes the
\* task list, none changes the selection, none writes today.json, none
\* leaves raw mode, and none ends or fails the program.
C20_ModeIsolation ==
    [][(app_mode = "Insert") =>
          /\ KeyChar =>
                /\ \E c \in CommandChars : input_string' = Append(input_string, c)
                /\ UNCHANGED <<tasks, app_mode>>
          /\ MainStep =>
                /\ UNCHANGED <<selected, today_file, raw_mode>>
                /\ pc' = "draw"
                /\ tasks' # tasks =>
                      /\ KeyEnter
                      /\ tasks' = Append(tasks, Task("Todo", input_string))]_vars

\* C20 witness: `x` was typed in Insert mode with a task in the list and
\* the list is as it was
C20_Witness ==
    /\ app_mode = "Insert" /\ pc = "draw"
    /\ input_string = <<"x">>
    /\ compose.active /\ tasks = compose.tasks /\ tasks # <<>>
    /\ selected = compose.selected
    /\ today_file = FileOld /\ raw_mode

====
